---- MODULE Spec2Model ----
(***************************************************************************)
(* Model of app.py of pierrebressy/seasonality: the price cache (table     *)
(* prices), the /api/data, /api/monthly, /api/weekday and                  *)
(* /api/weekday-quarter handlers, and the feature and calendar engine      *)
(* (compute_features and the three pivot builders).                        *)
(*                                                                         *)
(* Representation.                                                         *)
(*  - A date stored as TEXT 'YYYY-MM-DD' is the triple <<y, m, d>>; its    *)
(*    string order is the lexicographic order of the triple.  A parsed     *)
(*    date (datetime64) is its proleptic Gregorian ordinal, as Python's    *)
(*    date.toordinal().                                                    *)
(*  - An IEEE double is a record [kind, n, d]: kind "fin" with the exact   *)
(*    reduced fraction n/d, or "nan", "inf", "ninf".  Rounding is not      *)
(*    modelled: finite results are exact.                                  *)
(*  - A nullable integer (pandas Int64) is <<>> for <NA> and <<v>> for v.  *)
(*  - Array positions are 0-based as in numpy; TLA+ sequences are 1-based, *)
(*    so position p is sequence index p + 1.                               *)
(***************************************************************************)
EXTENDS Integers, Sequences, FiniteSets, TLC

VARIABLES
    prices,           \* table prices: set of rows [ticker, date, open, high, low, close]
    pc,               \* "idle", or "api_data" once /api/data has committed its upsert
    work,             \* compute_features' local arrays of the last run, one record per row
    enriched,         \* the feature table returned by the last compute_features
    monthly,          \* the pivot returned by the last compute_monthly_performance
    weekly,           \* the pivot returned by the last compute_weekday_performance
    weekly_quarter,   \* the pivot of the last compute_weekday_performance_by_quarter
    returned,         \* the last direct call of a function: [fn, args, value]
    response,         \* the HTTP response of the last request: [status, error, columns, rows]
    pct_change_fill,  \* fill_method Series.pct_change defaults to in the installed pandas
    market            \* what the upstream provider can deliver and the (year, month)
                      \* pairs third_friday is called with: [dates, bars, months]

vars ==
    <<prices, pc, work, enriched, monthly, weekly, weekly_quarter, returned,
      response, pct_change_fill, market>>

-----------------------------------------------------------------------------
(* Bounds of the model *)

\* number of candidate dates served in the calendar scenario
NumCalDays == 10
\* number of consecutive trading days served in the price scenario
NumPxDays == 3
\* number of years, from 2023 on, third_friday is called with
NumTwYears == 2

-----------------------------------------------------------------------------
(* Calendar arithmetic (datetime / datetime64 semantics) *)

IsLeap(y) == (y % 4 = 0) /\ ((y % 100 # 0) \/ (y % 400 = 0))

DaysInMonthTable == <<31, 28, 31, 30, 31, 30, 31, 31, 30, 31, 30, 31>>

DaysBeforeMonthTable == <<0, 31, 59, 90, 120, 151, 181, 212, 243, 273, 304, 334>>

DaysBeforeMonth(y, m) ==
    DaysBeforeMonthTable[m] + (IF m > 2 /\ IsLeap(y) THEN 1 ELSE 0)

DaysBeforeYear(y) ==
    LET p == y - 1 IN p * 365 + (p \div 4) - (p \div 100) + (p \div 400)

\* datetime(y, m, d).toordinal(); pd.to_datetime of a 'YYYY-MM-DD' string
ToOrdinal(ymd) ==
    DaysBeforeYear(ymd[1]) + DaysBeforeMonth(ymd[1], ymd[2]) + ymd[3]

\* date.fromordinal(n) as <<y, m, d>>; strftime("%Y-%m-%d") of a datetime
FromOrdinal(ord) ==
    LET n0   == ord - 1
        n400 == n0 \div 146097
        r400 == n0 % 146097
        n100 == r400 \div 36524
        r100 == r400 % 36524
        n4   == r100 \div 1461
        r4   == r100 % 1461
        n1   == r4 \div 365
        n    == r4 % 365
        year == n400 * 400 + 1 + n100 * 100 + n4 * 4 + n1
        leap == (n1 = 3) /\ ((n4 # 24) \/ (n100 = 3))
        m0   == (n + 50) \div 32
        p0   == DaysBeforeMonthTable[m0] + (IF m0 > 2 /\ leap THEN 1 ELSE 0)
        month == IF p0 > n THEN m0 - 1 ELSE m0
        prec == IF p0 > n
                THEN p0 - (DaysInMonthTable[month]
                           + (IF month = 2 /\ leap THEN 1 ELSE 0))
                ELSE p0
    IN  IF n1 = 4 \/ n100 = 4
        THEN <<year - 1, 12, 31>>
        ELSE <<year, month, n - prec + 1>>

\* datetime.weekday(): Monday = 0 .. Sunday = 6
Weekday(ord) == (ord + 6) % 7

YearOf(ord) == FromOrdinal(ord)[1]

\* order of two 'YYYY-MM-DD' strings (SQLite ORDER BY date, MAX(date))
DateStrLess(a, b) ==
    \/ a[1] < b[1]
    \/ a[1] = b[1] /\ a[2] < b[2]
    \/ a[1] = b[1] /\ a[2] = b[2] /\ a[3] < b[3]

-----------------------------------------------------------------------------
(* IEEE doubles as exact fractions with nan / inf / -inf *)

RECURSIVE GCD(_, _)
GCD(a, b) == IF b = 0 THEN a ELSE GCD(b, a % b)

Abs(x) == IF x < 0 THEN -x ELSE x

NaN == [kind |-> "nan", n |-> 0, d |-> 1]

Inf == [kind |-> "inf", n |-> 0, d |-> 1]

NegInf == [kind |-> "ninf", n |-> 0, d |-> 1]

Fin(n, d) ==
    LET g == GCD(Abs(n), Abs(d))
        s == IF d < 0 THEN -1 ELSE 1
    IN  [kind |-> "fin", n |-> (s * n) \div g, d |-> (s * d) \div g]

Num(v) == Fin(v, 1)

IsNaN(x) == x.kind = "nan"

IsFinite(x) == x.kind = "fin"

Sign(x) ==
    CASE x.kind = "inf" -> 1
      [] x.kind = "ninf" -> -1
      [] x.kind = "fin" -> (IF x.n > 0 THEN 1 ELSE IF x.n < 0 THEN -1 ELSE 0)
      [] OTHER -> 0

\* a / b in IEEE arithmetic: x/0 is +-inf, 0/0 is nan, nan propagates
FDiv(a, b) ==
    CASE IsNaN(a) \/ IsNaN(b) -> NaN
      [] IsFinite(a) /\ IsFinite(b) ->
            IF b.n = 0
            THEN (IF a.n = 0 THEN NaN ELSE IF a.n > 0 THEN Inf ELSE NegInf)
            ELSE Fin(a.n * b.d, a.d * b.n)
      [] IsFinite(a) -> Num(0)
      [] IsFinite(b) ->
            IF Sign(a) * (IF b.n < 0 THEN -1 ELSE 1) > 0 THEN Inf ELSE NegInf
      [] OTHER -> NaN

\* a - b
FSub(a, b) ==
    CASE IsNaN(a) \/ IsNaN(b) -> NaN
      [] IsFinite(a) /\ IsFinite(b) -> Fin(a.n * b.d - b.n * a.d, a.d * b.d)
      [] IsFinite(b) -> a
      [] IsFinite(a) -> (IF b.kind = "inf" THEN NegInf ELSE Inf)
      [] OTHER -> (IF a.kind = b.kind THEN NaN ELSE a)

\* a * b
FMul(a, b) ==
    CASE IsNaN(a) \/ IsNaN(b) -> NaN
      [] IsFinite(a) /\ IsFinite(b) -> Fin(a.n * b.n, a.d * b.d)
      [] OTHER ->
            IF Sign(a) * Sign(b) = 0 THEN NaN
            ELSE IF Sign(a) * Sign(b) > 0 THEN Inf ELSE NegInf

\* x > 0 and x < 0 as Series.gt(0) / Series.lt(0): False on nan
FGt0(x) == Sign(x) > 0

FLt0(x) == Sign(x) < 0

\* a <= b on non-nan doubles
FLeq(a, b) ==
    CASE a.kind = "ninf" \/ b.kind = "inf" -> TRUE
      [] a.kind = "inf" \/ b.kind = "ninf" -> FALSE
      [] OTHER -> a.n * b.d <= b.n * a.d

\* (a / b - 1.0) * 100.0
Pct(a, b) == FMul(FSub(FDiv(a, b), Num(1)), Num(100))

-----------------------------------------------------------------------------
(* The price cache: table prices, PRIMARY KEY (ticker, date) *)

Tickers == {"AAPL"}

\* INSERT OR REPLACE of one record: a row with the same (ticker, date) is
\* deleted before the new row is inserted
\* a plain INSERT into a table without a primary key
insert_row(table, rec) == table \cup {rec}

InsertOrReplace(table, rec) ==
    {r \in table : ~(r.ticker = rec.ticker /\ r.date = rec.date)} \cup {rec}

\* upsert_prices: executemany over the records of the downloaded frame
RECURSIVE upsert_prices(_, _, _)
upsert_prices(table, ticker, frame) ==
    IF frame = <<>>
    THEN table
    ELSE upsert_prices(
             InsertOrReplace(table,
                 [ticker |-> ticker, date |-> Head(frame).date,
                  open |-> Head(frame).open, high |-> Head(frame).high,
                  low |-> Head(frame).low, close |-> Head(frame).close]),
             ticker, Tail(frame))

\* ORDER BY date over a set of rows
RECURSIVE OrderByDate(_)
OrderByDate(rows) ==
    IF rows = {}
    THEN <<>>
    ELSE LET first == CHOOSE r \in rows :
                          \A q \in rows : ~DateStrLess(q.date, r.date)
         IN  <<first>> \o OrderByDate(rows \ {first})

\* fetch_all_from_db: SELECT date, open, high, low, close WHERE ticker = ? ORDER BY date
fetch_all_from_db(table, ticker) ==
    LET sel == OrderByDate({r \in table : r.ticker = ticker})
    IN  [i \in 1..Len(sel) |->
            [date |-> sel[i].date, open |-> sel[i].open, high |-> sel[i].high,
             low |-> sel[i].low, close |-> sel[i].close]]

\* fetch_date_bounds: MAX(date) as <<date>>, or <<>> when the ticker has no row
fetch_max_date(table, ticker) ==
    LET ds == {r.date : r \in {q \in table : q.ticker = ticker}}
    IN  IF ds = {}
        THEN <<>>
        ELSE <<CHOOSE d \in ds : \A e \in ds : ~DateStrLess(d, e)>>

-----------------------------------------------------------------------------
(* compute_features: calendar attributes and trading-day counters *)

\* frame["date"] = pd.to_datetime(frame["date"])
ParsedDates(frame) == [i \in 1..Len(frame) |-> ToOrdinal(frame[i].date)]

semester(month) == (month - 1) \div 6 + 1

\* three-month buckets, numbered 1 to 4
three_month_bucket(month) == (month - 1) \div 3 + 1

trimester(month) == (month - 1) \div 4 + 1

decade(year) == (year \div 10) * 10

\* a counter over the whole table, ignoring the grouping key
cumcount_ungrouped(keys, i) == i - 1

\* groupby(key).cumcount() at row i: rows of the same group that precede row i
cumcount(keys, i) == Cardinality({j \in 1..(i - 1) : keys[j] = keys[i]})

\* groupby(key)["date"].transform("size") at row i
group_size(keys, i) == Cardinality({j \in 1..Len(keys) : keys[j] = keys[i]})

-----------------------------------------------------------------------------
(* compute_features: expiration locator *)

\* the offset to the first Friday taken without wrapping into the next week
friday_without_wrap(year, month) ==
    LET first == ToOrdinal(<<year, month, 1>>)
    IN  first + (4 - Weekday(first)) + 14

third_friday(year, month) ==
    LET first == ToOrdinal(<<year, month, 1>>)
        days_until_friday == (4 - Weekday(first)) % 7
    IN  first + days_until_friday + 14

\* a pair whose neighbouring months stay in the row's own year
monthly_pair_same_year(d, year, month) ==
    LET current_tw == third_friday(year, month)
    IN  IF d <= current_tw
        THEN <<current_tw, third_friday(year, ((month - 2) % 12) + 1)>>
        ELSE <<third_friday(year, (month % 12) + 1), current_tw>>

\* the pair <<next_tw, prev_tw>> of a row dated d (an ordinal) in (year, month)
monthly_pair(d, year, month) ==
    LET current_tw == third_friday(year, month)
        before_or_on == d <= current_tw
        next_month == month + 1
        next_year == year + (IF next_month > 12 THEN 1 ELSE 0)
        prev_month == month - 1
        prev_year == year - (IF prev_month < 1 THEN 1 ELSE 0)
    IN  IF before_or_on
        THEN <<current_tw, third_friday(prev_year, ((prev_month - 1) % 12) + 1)>>
        ELSE <<third_friday(next_year, ((next_month - 1) % 12) + 1), current_tw>>

quarter_month(month) == ((month - 1) \div 3 + 1) * 3

\* a pair that moves to the following quarter on the expiration day itself
quarterly_pair_strict(d, year, month) ==
    LET current_q_tw == third_friday(year, quarter_month(month))
        q == quarter_month(month)
    IN  IF d < current_q_tw
        THEN <<current_q_tw,
               third_friday(year - (IF q = 3 THEN 1 ELSE 0), ((q - 4) % 12) + 1)>>
        ELSE <<third_friday(year + (IF q = 12 THEN 1 ELSE 0), ((q + 2) % 12) + 1),
               current_q_tw>>

\* the pair <<next_q_tw, prev_q_tw>> of a row dated d (an ordinal) in (year, month)
quarterly_pair(d, year, month) ==
    LET current_q_tw == third_friday(year, quarter_month(month))
        before_or_on_q == d <= current_q_tw
        next_quarter_month == quarter_month(month) + 3
        next_quarter_year == year + (IF next_quarter_month > 12 THEN 1 ELSE 0)
        prev_quarter_month == quarter_month(month) - 3
        prev_quarter_year == year - (IF prev_quarter_month < 1 THEN 1 ELSE 0)
    IN  IF before_or_on_q
        THEN <<current_q_tw,
               third_friday(prev_quarter_year, ((prev_quarter_month - 1) % 12) + 1)>>
        ELSE <<third_friday(next_quarter_year, ((next_quarter_month - 1) % 12) + 1),
               current_q_tw>>

\* the insertion point after the entries equal to v (side="right")
searchsorted_right(a, v) == Cardinality({j \in 1..Len(a) : a[j] <= v})

\* np.searchsorted(a, v, side="left"): binary search over positions lo..hi (0-based)
RECURSIVE bisect_left(_, _, _, _)
bisect_left(a, v, lo, hi) ==
    IF lo >= hi
    THEN lo
    ELSE LET mid == lo + ((hi - lo) \div 2)
         IN  IF a[mid + 1] < v
             THEN bisect_left(a, v, mid + 1, hi)
             ELSE bisect_left(a, v, lo, mid)

searchsorted(a, v) == bisect_left(a, v, 0, Len(a))

\* positions left as searchsorted returns them
mask_nothing(pos, len) == pos

\* np.where(positions >= len(frame), -1, positions)
mask_beyond_end(pos, len) == IF pos >= len THEN -1 ELSE pos

position_of(date_values, target) ==
    mask_beyond_end(searchsorted(date_values, target), Len(date_values))

Max(a, b) == IF a >= b THEN a ELSE b

\* np.where(next >= 0, np.maximum(next - current_pos, 0), nan).astype("Int64")
remaining_before(next_position, current_pos) ==
    IF next_position >= 0 THEN <<Max(next_position - current_pos, 0)>> ELSE <<>>

\* np.where(prev >= 0, np.maximum(current_pos - prev, 0), nan).astype("Int64")
elapsed_since(prev_position, current_pos) ==
    IF prev_position >= 0 THEN <<Max(current_pos - prev_position, 0)>> ELSE <<>>

-----------------------------------------------------------------------------
(* compute_features: returns, streaks, all-time highs, multi-horizon returns *)

Column(frame, name) == [i \in 1..Len(frame) |-> frame[i][name]]

\* Series.shift(periods): the value periods rows earlier, nan outside the series
shift(col, periods, i) ==
    IF i - periods >= 1 /\ i - periods <= Len(col) THEN col[i - periods] ELSE NaN

\* (a / b.shift(1) - 1.0) * 100.0 at row i
lag_pct(a, b, i) == Pct(a[i], shift(b, 1, i))

\* (mask != mask.shift()).cumsum() at row i: the number of the run row i is in
run_id(mask, i) ==
    Cardinality({j \in 1..i : j = 1 \/ mask[j] # mask[j - 1]})

\* a count of the true rows so far that a false row does not reset
count_without_reset(mask) ==
    [i \in 1..Len(mask) |->
        IF mask[i] THEN Cardinality({j \in 1..i : mask[j]}) ELSE 0]

\* mask.groupby(run id).cumcount() + 1, then .where(mask, 0)
compute_mask_streaks(mask) ==
    [i \in 1..Len(mask) |->
        IF mask[i]
        THEN Cardinality({j \in 1..i : run_id(mask, j) = run_id(mask, i)})
        ELSE 0]

compute_streaks(series, positive) ==
    LET mask == [i \in 1..Len(series) |->
                    IF positive THEN FGt0(series[i]) ELSE FLt0(series[i])]
    IN  compute_mask_streaks(mask)

\* Series.cummax() (skipna): nan where the value is nan, else the maximum of the
\* non-nan values so far
cummax(col, i) ==
    IF IsNaN(col[i])
    THEN NaN
    ELSE CHOOSE v \in {col[j] : j \in {k \in 1..i : ~IsNaN(col[k])}} :
             \A j \in 1..i : IsNaN(col[j]) \/ FLeq(col[j], v)

\* Series.eq: False when either side is nan
FEq(a, b) == ~IsNaN(a) /\ ~IsNaN(b) /\ a = b

\* Series.ffill(): the last non-nan value at or before row i
ffill(col, i) ==
    LET seen == {j \in 1..i : ~IsNaN(col[j])}
    IN  IF seen = {}
        THEN NaN
        ELSE col[CHOOSE j \in seen : \A k \in seen : k <= j]

\* Series.pct_change(periods) * 100.0 at row i: data / data.shift(periods) - 1 over
\* the series padded forward when fill_method is "pad", as is when it is None
pct_change(col, periods, fill, i) ==
    LET data == IF fill = "pad"
                THEN [j \in 1..Len(col) |-> ffill(col, j)]
                ELSE col
    IN  FMul(FSub(FDiv(data[i], shift(data, periods, i)), Num(1)), Num(100))

Horizons == {2, 3, 4, 5, 6, 7, 8, 9, 10, 21, 30, 42, 63, 84, 105, 126}

-----------------------------------------------------------------------------
(* compute_features *)

\* the expiration arrays of a row at position current_pos: dates and positions
expiration_locals(date_values, current_pos, d, ymd, tw, q_tw) ==
    [date_value |-> d,
     year |-> ymd[1],
     month |-> ymd[2],
     current_pos |-> current_pos,
     next_tw |-> tw[1],
     prev_tw |-> tw[2],
     next_position |-> position_of(date_values, tw[1]),
     prev_position |-> position_of(date_values, tw[2]),
     next_q_tw |-> q_tw[1],
     prev_q_tw |-> q_tw[2],
     next_q_position |-> position_of(date_values, q_tw[1]),
     prev_q_position |-> position_of(date_values, q_tw[2])]

row_expirations(date_values, i, d, ymd) ==
    expiration_locals(date_values, i - 1, d, ymd,
                      monthly_pair(d, ymd[1], ymd[2]),
                      quarterly_pair(d, ymd[1], ymd[2]))

\* the lag-1 ratios and running maxima of row i
price_locals(open, high, low, close, i) ==
    [oo |-> lag_pct(open, open, i),
     hh |-> lag_pct(high, high, i),
     ll |-> lag_pct(low, low, i),
     ath_open |-> cummax(open, i),
     ath_high |-> cummax(high, i),
     ath_close |-> cummax(close, i)]

\* the local arrays of compute_features, one record per row
locals_table(frame, date_values) ==
    [i \in 1..Len(frame) |->
        [exp |-> row_expirations(date_values, i, date_values[i],
                                 FromOrdinal(date_values[i])),
         px |-> price_locals(Column(frame, "open"), Column(frame, "high"),
                             Column(frame, "low"), Column(frame, "close"), i)]]

all_locals(frame) == locals_table(frame, ParsedDates(frame))

\* the column the year granularity adds to the frame
year_counter_columns(keys, i) ==
    [trading_day |-> cumcount(keys, i) + 1]

\* the columns a (year, period) granularity adds to the frame
period_counter_columns(keys, i) ==
    [trading_day_of |-> cumcount(keys, i) + 1,
     remaining_trading_days_in |-> group_size(keys, i) - (cumcount(keys, i) + 1)]

\* the calendar and trading-day columns of row i
calendar_columns(E, i) ==
    [date |-> FromOrdinal(E[i].date_value),
     year |-> E[i].year,
     semester |-> semester(E[i].month),
     trimester |-> trimester(E[i].month),
     decade |-> decade(E[i].year),
     month |-> E[i].month,
     year_counter |->
         year_counter_columns([j \in 1..Len(E) |-> <<E[j].year>>], i),
     month_counter |->
         period_counter_columns([j \in 1..Len(E) |-> <<E[j].year, E[j].month>>], i),
     trimester_counter |->
         period_counter_columns(
             [j \in 1..Len(E) |-> <<E[j].year, trimester(E[j].month)>>], i),
     semester_counter |->
         period_counter_columns(
             [j \in 1..Len(E) |-> <<E[j].year, semester(E[j].month)>>], i)]

\* the expiration columns of row i
expiration_columns(e) ==
    [tw_date |-> FromOrdinal(e.next_tw),
     remaining_before_tw |-> remaining_before(e.next_position, e.current_pos),
     elapsed_since_tw |-> elapsed_since(e.prev_position, e.current_pos),
     q_tw_date |-> FromOrdinal(e.next_q_tw),
     remaining_before_q_tw |-> remaining_before(e.next_q_position, e.current_pos),
     elapsed_since_q_tw |-> elapsed_since(e.prev_q_position, e.current_pos)]

\* the 8 run columns, as sequences over the rows
run_columns(oo, oc, hh, ll, positive) ==
    [oo |-> compute_streaks(oo, positive),
     oc |-> compute_streaks(oc, positive),
     hh |-> compute_streaks(hh, positive),
     ll |-> compute_streaks(ll, positive)]

\* the ath flag and consecutive ath columns of one price field
ath_columns(mask) ==
    [flag |-> [i \in 1..Len(mask) |-> IF mask[i] THEN 1 ELSE 0],
     run |-> compute_mask_streaks(mask)]

\* a mask of new highs only: a value equal to an earlier one does not count
strict_high_mask(col, ath) ==
    [i \in 1..Len(col) |->
        FEq(col[i], ath[i]) /\ \A j \in 1..(i - 1) : ~FEq(col[j], col[i])]

eq_mask(col, ath) == [i \in 1..Len(col) |-> FEq(col[i], ath[i])]

\* the return, streak and ath columns of row i
price_columns(open, high, low, close, oc, bull, bear, aopen, ahigh, aclose, fill, i) ==
    [open |-> open[i],
     close |-> close[i],
     oc |-> oc[i],
     cc |-> lag_pct(close, close, i),
     co |-> lag_pct(open, close, i),
     bullish_run |-> [oo |-> bull.oo[i], oc |-> bull.oc[i],
                      hh |-> bull.hh[i], ll |-> bull.ll[i]],
     bearish_run |-> [oo |-> bear.oo[i], oc |-> bear.oc[i],
                      hh |-> bear.hh[i], ll |-> bear.ll[i]],
     ath |-> [open |-> aopen.flag[i], high |-> ahigh.flag[i],
              close |-> aclose.flag[i]],
     consecutive_ath |-> [open |-> aopen.run[i], high |-> ahigh.run[i],
                          close |-> aclose.run[i]],
     cc_minus |-> [h \in Horizons |-> pct_change(close, h, fill, i)],
     cc_plus |-> [h \in Horizons |-> pct_change(close, -h, fill, i)],
     high |-> high[i],
     low |-> low[i]]

price_table(open, high, low, close, oo, oc, hh, ll, P, fill) ==
    LET bull == run_columns(oo, oc, hh, ll, TRUE)
        bear == run_columns(oo, oc, hh, ll, FALSE)
        aopen == ath_columns(eq_mask(open, [i \in 1..Len(P) |-> P[i].ath_open]))
        ahigh == ath_columns(eq_mask(high, [i \in 1..Len(P) |-> P[i].ath_high]))
        aclose == ath_columns(eq_mask(close, [i \in 1..Len(P) |-> P[i].ath_close]))
    IN  [i \in 1..Len(P) |->
            price_columns(open, high, low, close, oc, bull, bear,
                          aopen, ahigh, aclose, fill, i)]

\* records a and b joined into one record
Join(a, b) ==
    [c \in (DOMAIN a) \cup (DOMAIN b) |-> IF c \in DOMAIN a THEN a[c] ELSE b[c]]

feature_table(E, T) ==
    [i \in 1..Len(E) |->
        Join(Join(calendar_columns(E, i), expiration_columns(E[i])), T[i])]

features_from(frame, L, fill) ==
    feature_table(
        [i \in 1..Len(L) |-> L[i].exp],
        price_table(Column(frame, "open"), Column(frame, "high"),
                    Column(frame, "low"), Column(frame, "close"),
                    [i \in 1..Len(L) |-> L[i].px.oo],
                    [i \in 1..Len(L) |-> Pct(frame[i].close, frame[i].open)],
                    [i \in 1..Len(L) |-> L[i].px.hh],
                    [i \in 1..Len(L) |-> L[i].px.ll],
                    [i \in 1..Len(L) |-> L[i].px],
                    fill))

compute_features(frame, fill) ==
    IF frame = <<>> THEN frame ELSE features_from(frame, all_locals(frame), fill)

-----------------------------------------------------------------------------
(* compute_monthly_performance *)

month_names == <<"Jan", "Feb", "Mar", "Apr", "May", "Jun",
                 "Jul", "Aug", "Sep", "Oct", "Nov", "Dec">>

\* DataFrame.sort_values("date") on parsed dates
RECURSIVE SortIndicesByDate(_, _)
SortIndicesByDate(date_values, idx) ==
    IF idx = {}
    THEN <<>>
    ELSE LET first == CHOOSE i \in idx :
                          \A j \in idx : date_values[i] < date_values[j]
                                         \/ (date_values[i] = date_values[j] /\ i <= j)
         IN  <<first>> \o SortIndicesByDate(date_values, idx \ {first})

sort_values(frame) ==
    LET order == SortIndicesByDate(ParsedDates(frame), 1..Len(frame))
    IN  [k \in 1..Len(frame) |-> frame[order[k]]]

\* a frame that keeps its rows without a close
keep_all_rows(frame) == frame

\* DataFrame.dropna(subset=["close"])
dropna_close(frame) == SelectSeq(frame, LAMBDA r : ~IsNaN(r.close))

\* ascending sequence of a set of integers (pivot.sort_index(axis=1))
RECURSIVE SortedInts(_)
SortedInts(S) ==
    IF S = {}
    THEN <<>>
    ELSE LET lo == CHOOSE x \in S : \A y \in S : x <= y
         IN  <<lo>> \o SortedInts(S \ {lo})

\* groupby(["year", "month"])["close"].agg(first, last), perf_pct, and the pivot
\* cell of (month, year): nan where the group has no row
monthly_cell(data, year, month) ==
    LET grp == {i \in 1..Len(data) :
                   LET ymd == FromOrdinal(ToOrdinal(data[i].date))
                   IN  ymd[1] = year /\ ymd[2] = month}
        first == data[CHOOSE i \in grp : \A j \in grp : i <= j].close
        last == data[CHOOSE i \in grp : \A j \in grp : j <= i].close
    IN  IF grp = {} THEN NaN ELSE Pct(last, first)

NoTable == [columns |-> <<>>, rows |-> <<>>]

compute_monthly_performance(frame) ==
    IF frame = <<>>
    THEN NoTable
    ELSE LET data == dropna_close(sort_values(frame))
             years == SortedInts({YearOf(ToOrdinal(data[i].date)) : i \in 1..Len(data)})
         IN  IF data = <<>>
             THEN NoTable
             ELSE [columns |-> years,
                   rows |-> [m \in 1..12 |->
                               [month |-> month_names[m],
                                cells |-> [k \in 1..Len(years) |->
                                              monthly_cell(data, years[k], m)]]]]

-----------------------------------------------------------------------------
(* compute_weekday_performance, compute_weekday_performance_by_quarter *)

\* the change from the calendar-adjacent previous row
adjacent_pct_change(data, names, i) ==
    IF i = 1 THEN NaN ELSE Pct(data[i].close, data[i - 1].close)

\* a + b
FAdd(a, b) == FSub(a, FSub(Num(0), b))

day_names == <<"monday", "tuesday", "wednesday", "thursday", "friday",
               "saturday", "sunday">>

\* dt.day_name().str.lower()
day_name(ord) == day_names[Weekday(ord) + 1]

\* dt.isocalendar().year: the year of the Thursday of the date's week
week_year(ord) == YearOf(ord - Weekday(ord) + 3)

\* dt.to_period("Q").astype(str): 'YYYYQn', held as the integer YYYYn, whose
\* order is the order of the strings
quarter(ord) ==
    LET ymd == FromOrdinal(ord)
    IN  ymd[1] * 10 + ((ymd[2] - 1) \div 3 + 1)

\* groupby("weekday")["close"].pct_change() * 100.0 at row i: the change from the
\* previous row of the same weekday, nan on the first row of a weekday
weekday_pct_change(data, names, i) ==
    LET earlier == {j \in 1..(i - 1) : names[j] = names[i]}
    IN  IF earlier = {}
        THEN NaN
        ELSE Pct(data[i].close,
                 data[CHOOSE j \in earlier : \A k \in earlier : k <= j].close)

RECURSIVE SumOver(_, _)
SumOver(perf, rows) ==
    IF rows = {}
    THEN Num(0)
    ELSE LET i == CHOOSE x \in rows : \A y \in rows : x <= y
         IN  FAdd(perf[i], SumOver(perf, rows \ {i}))

\* groupby([weekday, period])["perf_pct"].mean() and the pivot cell of (weekday,
\* period): the mean skips nan, and is nan where no row has a return
weekday_cell(names, periods, perf, name, period) ==
    LET defined == {i \in 1..Len(perf) :
                       names[i] = name /\ periods[i] = period /\ ~IsNaN(perf[i])}
    IN  IF defined = {}
        THEN NaN
        ELSE FDiv(SumOver(perf, defined), Num(Cardinality(defined)))

\* pivot, reindex(order) on monday..friday, sort_index(axis=1), reset_index
weekday_pivot(names, periods, perf, columns) ==
    [columns |-> columns,
     rows |-> [w \in 1..5 |->
                 [weekday |-> day_names[w],
                  cells |-> [k \in 1..Len(columns) |->
                                weekday_cell(names, periods, perf,
                                             day_names[w], columns[k])]]]]

weekday_table(data, names, periods) ==
    weekday_pivot(names, periods,
                  [i \in 1..Len(data) |-> weekday_pct_change(data, names, i)],
                  SortedInts({periods[i] : i \in 1..Len(periods)}))

weekday_names(data) == [i \in 1..Len(data) |-> day_name(ToOrdinal(data[i].date))]

weekday_performance_of(data) ==
    weekday_table(data, weekday_names(data),
                  [i \in 1..Len(data) |-> week_year(ToOrdinal(data[i].date))])

weekday_performance_by_quarter_of(data) ==
    weekday_table(data, weekday_names(data),
                  [i \in 1..Len(data) |-> quarter(ToOrdinal(data[i].date))])

compute_weekday_performance(frame) ==
    IF frame = <<>>
    THEN NoTable
    ELSE IF dropna_close(sort_values(frame)) = <<>>
         THEN NoTable
         ELSE weekday_performance_of(dropna_close(sort_values(frame)))

compute_weekday_performance_by_quarter(frame) ==
    IF frame = <<>>
    THEN NoTable
    ELSE IF dropna_close(sort_values(frame)) = <<>>
         THEN NoTable
         ELSE weekday_performance_by_quarter_of(dropna_close(sort_values(frame)))

-----------------------------------------------------------------------------
(* Serialization of missing values *)

\* the empty string "" a missing cell is serialized as
Empty == [kind |-> "empty", n |-> 0, d |-> 1]

\* .where(pd.notna(x), "") / .fillna("") on a double: only nan is replaced
fillna(x) == IF IsNaN(x) THEN Empty ELSE x

\* api_data: drop high, low, volume, then replace missing cells by ""
\* (a missing Int64 cell, <<>>, stands for "" as well)
serialize_features(table) ==
    [i \in 1..Len(table) |->
        [c \in (DOMAIN table[i]) \ {"high", "low"} |->
            CASE c \in {"open", "close", "oc", "cc", "co"} -> fillna(table[i][c])
              [] c \in {"cc_minus", "cc_plus"} ->
                    [h \in Horizons |-> fillna(table[i][c][h])]
              [] OTHER -> table[i][c]]]

\* api_monthly: monthly.fillna("")
serialize_monthly(table) ==
    [i \in 1..Len(table.rows) |->
        [month |-> table.rows[i].month,
         cells |-> [k \in 1..Len(table.rows[i].cells) |->
                       fillna(table.rows[i].cells[k])]]]

\* api_weekday, api_weekday_quarter: weekly.fillna("")
serialize_weekly(table) ==
    [i \in 1..Len(table.rows) |->
        [weekday |-> table.rows[i].weekday,
         cells |-> [k \in 1..Len(table.rows[i].cells) |->
                       fillna(table.rows[i].cells[k])]]]

-----------------------------------------------------------------------------
(* Scenarios: what the upstream provider can deliver *)

\* candidate dates of the calendar scenario: days before, on and after the third
\* Fridays 2023-12-15, 2024-01-19, 2024-03-15 and 2024-06-21
CalCalendar ==
    << <<2023, 12, 14>>, <<2023, 12, 15>>, <<2023, 12, 18>>, <<2024, 1, 10>>,
       <<2024, 1, 12>>, <<2024, 1, 19>>, <<2024, 1, 22>>, <<2024, 3, 15>>,
       <<2024, 6, 21>>, <<2024, 7, 1>>, <<2024, 3, 18>>, <<2024, 12, 23>> >>

CalDates == {CalCalendar[k] : k \in 1..NumCalDays}

SteadyBar == [open |-> Num(1), high |-> Num(1), low |-> Num(1), close |-> Num(1)]

\* consecutive trading days of the price scenario, across a month and year end
PxCalendar ==
    << <<2023, 12, 28>>, <<2023, 12, 29>>, <<2024, 1, 2>>, <<2024, 1, 3>>,
       <<2024, 1, 4>> >>

PxDates == {PxCalendar[k] : k \in 1..NumPxDays}

\* bars of the price scenario: the open is 1 or 2, the close is missing, 0, 1 or 2,
\* the high repeats the close and the low the open
OpenVals == {Num(1), Num(2)}

CloseVals == {NaN, Num(0), Num(1), Num(2)}

PxBars ==
    {[open |-> o, high |-> c, low |-> o, close |-> c] : o \in OpenVals, c \in CloseVals}

\* the weekday scenario: a Monday, the Friday after it and the next Monday, which
\* is in ISO week-year 2025; the close is 1 or 2
WkDates == {<<2024, 12, 23>>, <<2024, 12, 27>>, <<2024, 12, 30>>}

WkBars ==
    {[open |-> Num(1), high |-> c, low |-> Num(1), close |-> c] : c \in {Num(1), Num(2)}}

\* the years third_friday is called with in the weekday scenario

TwYears == 2023..(2022 + NumTwYears)

\* one-row frames download_prices can return from a market, dated start..end
Downloads(mkt, start, end) ==
    {<<[date |-> d, open |-> b.open, high |-> b.high, low |-> b.low,
        close |-> b.close]>> :
        d \in {x \in mkt.dates : ToOrdinal(x) >= start /\ ToOrdinal(x) <= end},
        b \in mkt.bars}

\* the last day the provider has data for
yesterday(mkt) ==
    ToOrdinal(CHOOSE d \in mkt.dates : \A e \in mkt.dates : ~DateStrLess(d, e))

-----------------------------------------------------------------------------
(* State machine *)

NoCall == [fn |-> "", args |-> <<>>, value |-> <<>>]

NoResponse == [status |-> 0, error |-> "", columns |-> <<>>, rows |-> <<>>]

Error404(msg) == [status |-> 404, error |-> msg, columns |-> <<>>, rows |-> <<>>]

InitWith(mkt) ==
    /\ prices = {}
    /\ pc = "idle"
    /\ work = <<>>
    /\ enriched = <<>>
    /\ monthly = NoTable
    /\ weekly = NoTable
    /\ weekly_quarter = NoTable
    /\ returned = NoCall
    /\ response = NoResponse
    /\ pct_change_fill \in {"pad", "none"}
    /\ market = mkt

InitCal ==
    InitWith([dates |-> CalDates, bars |-> {SteadyBar}, months |-> {<<2024, 1>>}])

InitPx == InitWith([dates |-> PxDates, bars |-> PxBars, months |-> {<<2024, 2>>}])

InitWk ==
    InitWith([dates |-> WkDates, bars |-> WkBars, months |-> TwYears \X (1..12)])

\* a request begins: the outputs of the previous one are gone
Begin ==
    /\ work' = <<>>
    /\ enriched' = <<>>
    /\ monthly' = NoTable
    /\ weekly' = NoTable
    /\ weekly_quarter' = NoTable
    /\ returned' = NoCall
    /\ response' = NoResponse

\* /api/data, action "new": download from 2020-01-01 to yesterday and upsert
ApiDataNew(ticker) ==
    /\ pc = "idle"
    /\ \E downloaded \in
           Downloads(market, ToOrdinal(<<2020, 1, 1>>), yesterday(market)) :
           prices' = upsert_prices(prices, ticker, downloaded)
    /\ pc' = "api_data"
    /\ Begin
    /\ UNCHANGED <<pct_change_fill, market>>

\* /api/data, action "update" with cached data that ends before yesterday:
\* download from the day after the last cached date and upsert
ApiDataUpdate(ticker) ==
    /\ pc = "idle"
    /\ fetch_max_date(prices, ticker) # <<>>
    /\ LET start_date == ToOrdinal(fetch_max_date(prices, ticker)[1]) + 1
       IN  /\ start_date <= yesterday(market)
           /\ \E downloaded \in Downloads(market, start_date, yesterday(market)) :
                  prices' = upsert_prices(prices, ticker, downloaded)
    /\ pc' = "api_data"
    /\ Begin
    /\ UNCHANGED <<pct_change_fill, market>>

\* /api/data, action "update" with nothing cached: 404
ApiDataUpdateNoCache(ticker) ==
    /\ pc = "idle"
    /\ fetch_max_date(prices, ticker) = <<>>
    /\ response' = Error404("no cached data to update")
    /\ work' = <<>>
    /\ enriched' = <<>>
    /\ monthly' = NoTable
    /\ weekly' = NoTable
    /\ weekly_quarter' = NoTable
    /\ returned' = NoCall
    /\ UNCHANGED <<prices, pc, pct_change_fill, market>>

\* /api/data, action "new" or "update", when the provider returns no row: 404
ApiDataNoData(ticker) ==
    /\ pc = "idle"
    /\ response' = Error404("no data returned from yfinance")
    /\ work' = <<>>
    /\ enriched' = <<>>
    /\ monthly' = NoTable
    /\ weekly' = NoTable
    /\ weekly_quarter' = NoTable
    /\ returned' = NoCall
    /\ UNCHANGED <<prices, pc, pct_change_fill, market>>

\* /api/data, action "cached", or "update" when already up to date: no download
ApiDataCached(ticker) ==
    /\ pc = "idle"
    /\ pc' = "api_data"
    /\ Begin
    /\ UNCHANGED <<prices, pct_change_fill, market>>

\* /api/data after the upsert: read the cache back, compute the features and
\* serialize them (raw_only false)
ApiDataRespond(ticker) ==
    /\ pc = "api_data"
    /\ LET existing == fetch_all_from_db(prices, ticker)
       IN  IF existing = <<>>
           THEN /\ response' = Error404("no cached data for this ticker")
                /\ UNCHANGED <<work, enriched>>
           ELSE /\ work' = all_locals(existing)
                /\ enriched' = compute_features(existing, pct_change_fill)
                /\ response' = [status |-> 200, error |-> "", columns |-> <<>>,
                                rows |-> serialize_features(enriched')]
    /\ pc' = "idle"
    /\ UNCHANGED <<prices, monthly, weekly, weekly_quarter, returned,
                   pct_change_fill, market>>

\* /api/monthly
ApiMonthly(ticker) ==
    /\ pc = "idle"
    /\ LET existing == fetch_all_from_db(prices, ticker)
       IN  IF existing = <<>>
           THEN /\ response' = Error404("no cached data for this ticker")
                /\ monthly' = NoTable
           ELSE /\ monthly' = compute_monthly_performance(existing)
                /\ response' = [status |-> 200, error |-> "",
                                columns |-> monthly'.columns,
                                rows |-> serialize_monthly(monthly')]
    /\ work' = <<>>
    /\ enriched' = <<>>
    /\ weekly' = NoTable
    /\ weekly_quarter' = NoTable
    /\ returned' = NoCall
    /\ UNCHANGED <<prices, pc, pct_change_fill, market>>

\* /api/weekday
ApiWeekday(ticker) ==
    /\ pc = "idle"
    /\ LET existing == fetch_all_from_db(prices, ticker)
       IN  IF existing = <<>>
           THEN /\ response' = Error404("no cached data for this ticker")
                /\ weekly' = NoTable
           ELSE /\ weekly' = compute_weekday_performance(existing)
                /\ response' = [status |-> 200, error |-> "",
                                columns |-> weekly'.columns,
                                rows |-> serialize_weekly(weekly')]
    /\ work' = <<>>
    /\ enriched' = <<>>
    /\ monthly' = NoTable
    /\ weekly_quarter' = NoTable
    /\ returned' = NoCall
    /\ UNCHANGED <<prices, pc, pct_change_fill, market>>

\* /api/weekday-quarter
ApiWeekdayQuarter(ticker) ==
    /\ pc = "idle"
    /\ LET existing == fetch_all_from_db(prices, ticker)
       IN  IF existing = <<>>
           THEN /\ response' = Error404("no cached data for this ticker")
                /\ weekly_quarter' = NoTable
           ELSE /\ weekly_quarter' = compute_weekday_performance_by_quarter(existing)
                /\ response' = [status |-> 200, error |-> "",
                                columns |-> weekly_quarter'.columns,
                                rows |-> serialize_weekly(weekly_quarter')]
    /\ work' = <<>>
    /\ enriched' = <<>>
    /\ monthly' = NoTable
    /\ weekly' = NoTable
    /\ returned' = NoCall
    /\ UNCHANGED <<prices, pc, pct_change_fill, market>>

\* the four table builders called on the zero-row frame fetch_all_from_db returns
\* for a ticker that has no cached bar
CallOnEmptyFrame(ticker) ==
    /\ pc = "idle"
    /\ fetch_all_from_db(prices, ticker) = <<>>
    /\ LET frame == fetch_all_from_db(prices, ticker)
       IN  returned' =
               [fn |-> "builders", args |-> frame,
                value |-> [compute_features |->
                               compute_features(frame, pct_change_fill),
                           compute_monthly_performance |->
                               compute_monthly_performance(frame),
                           compute_weekday_performance |->
                               compute_weekday_performance(frame),
                           compute_weekday_performance_by_quarter |->
                               compute_weekday_performance_by_quarter(frame)]]
    /\ work' = <<>>
    /\ enriched' = <<>>
    /\ monthly' = NoTable
    /\ weekly' = NoTable
    /\ weekly_quarter' = NoTable
    /\ response' = NoResponse
    /\ UNCHANGED <<prices, pc, pct_change_fill, market>>

\* third_friday called with a (year, month) pair, on a process that has served no
\* request yet; the value is returned as a date
CallThirdFriday ==
    /\ pc = "idle"
    /\ prices = {}
    /\ \E ym \in market.months :
           returned' = [fn |-> "third_friday", args |-> ym,
                        value |-> FromOrdinal(third_friday(ym[1], ym[2]))]
    /\ work' = <<>>
    /\ enriched' = <<>>
    /\ monthly' = NoTable
    /\ weekly' = NoTable
    /\ weekly_quarter' = NoTable
    /\ response' = NoResponse
    /\ UNCHANGED <<prices, pc, pct_change_fill, market>>

Next ==
    \E ticker \in Tickers :
        \/ ApiDataNew(ticker)
        \/ ApiDataUpdate(ticker)
        \/ ApiDataUpdateNoCache(ticker)
        \/ ApiDataNoData(ticker)
        \/ ApiDataCached(ticker)
        \/ ApiDataRespond(ticker)
        \/ ApiMonthly(ticker)
        \/ ApiWeekday(ticker)
        \/ ApiWeekdayQuarter(ticker)
        \/ CallOnEmptyFrame(ticker)
        \/ CallThirdFriday

\* calendar scenario: many dates, one steady bar
SpecCal == InitCal /\ [][Next]_vars

\* price scenario: consecutive trading days, varying bars
SpecPx == InitPx /\ [][Next]_vars

\* weekday scenario: two Mondays and a Friday around an ISO year end, two closes,
\* and third_friday called with every month of TwYears
SpecWk == InitWk /\ [][Next]_vars

-----------------------------------------------------------------------------
(* Vocabulary of the properties, stated on the dates and prices of the rows *)

Rows == 1..Len(enriched)

\* the date string of row i of the last feature table
DateOf(i) == enriched[i].date

\* ceil(month / 4) and the half of the year
CeilTrimester(m) == (m + 3) \div 4

HalfOfYear(m) == IF m <= 6 THEN 1 ELSE 2

\* the key of a date string at a granularity
KeyOf(g, ymd) ==
    CASE g = "year" -> <<ymd[1]>>
      [] g = "month" -> <<ymd[1], ymd[2]>>
      [] g = "trimester" -> <<ymd[1], CeilTrimester(ymd[2])>>
      [] g = "semester" -> <<ymd[1], HalfOfYear(ymd[2])>>

CounterOf(g, i) ==
    CASE g = "year" -> enriched[i].year_counter
      [] g = "month" -> enriched[i].month_counter
      [] g = "trimester" -> enriched[i].trimester_counter
      [] g = "semester" -> enriched[i].semester_counter

OrdinalOf(g, i) ==
    IF g = "year" THEN CounterOf(g, i).trading_day ELSE CounterOf(g, i).trading_day_of

\* rows of the series in the group of row i, and those dated on or before row i
GroupRows(g, i) == {j \in Rows : KeyOf(g, DateOf(j)) = KeyOf(g, DateOf(i))}

GroupRowsUpTo(g, i) ==
    {j \in GroupRows(g, i) : ~DateStrLess(DateOf(i), DateOf(j))}

\* bars of the cache in the group of row i
CachedInGroup(g, i) ==
    {r \in prices : KeyOf(g, r.date) = KeyOf(g, DateOf(i))}

OrdinalRight(g, i) == OrdinalOf(g, i) = Cardinality(GroupRowsUpTo(g, i))

RemainingRight(g, i) ==
    /\ "remaining_trading_days_in" \in DOMAIN CounterOf(g, i)
    /\ CounterOf(g, i).remaining_trading_days_in =
           Cardinality(GroupRows(g, i)) - OrdinalOf(g, i)
    /\ Cardinality(GroupRows(g, i)) = Cardinality(CachedInGroup(g, i))

-----------------------------------------------------------------------------

\* the Friday among the days 15..21 of a month
FridayOfThirdWeek(y, m) ==
    CHOOSE n \in ToOrdinal(<<y, m, 15>>)..ToOrdinal(<<y, m, 21>>) : Weekday(n) = 4

PrecedingMonth(y, m) == IF m = 1 THEN <<y - 1, 12>> ELSE <<y, m - 1>>

FollowingMonth(y, m) == IF m = 12 THEN <<y + 1, 1>> ELSE <<y, m + 1>>

QuarterEnd(m) == CHOOSE q \in {3, 6, 9, 12} : q >= m /\ q - m <= 2

PrecedingQuarterEnd(y, q) == IF q = 3 THEN <<y - 1, 12>> ELSE <<y, q - 3>>

FollowingQuarterEnd(y, q) == IF q = 12 THEN <<y + 1, 3>> ELSE <<y, q + 3>>

\* <<next, previous>> around the third Friday T of period ym, given the periods
\* before and after it
PairAround(date, T, before, after) ==
    IF date <= T
    THEN <<T, FridayOfThirdWeek(before[1], before[2])>>
    ELSE <<FridayOfThirdWeek(after[1], after[2]), T>>

ExpectedMonthly(ymd) ==
    PairAround(ToOrdinal(ymd), FridayOfThirdWeek(ymd[1], ymd[2]),
               PrecedingMonth(ymd[1], ymd[2]), FollowingMonth(ymd[1], ymd[2]))

ExpectedQuarterly(ymd) ==
    PairAround(ToOrdinal(ymd), FridayOfThirdWeek(ymd[1], QuarterEnd(ymd[2])),
               PrecedingQuarterEnd(ymd[1], QuarterEnd(ymd[2])),
               FollowingQuarterEnd(ymd[1], QuarterEnd(ymd[2])))

\* C2: on every row, with T the third Friday of the row's month (of its
\* quarter-ending month for the quarterly pair), a row dated on or before T has
\* next = T and previous = the third Friday of the preceding month (quarter end);
\* a later row has next = the third Friday of the following month (quarter end)
\* and previous = T, the year moving with the period across a year boundary.
C2_NextAndPreviousExpiration ==
    \A i \in Rows :
        /\ <<work[i].exp.next_tw, work[i].exp.prev_tw>> = ExpectedMonthly(DateOf(i))
        /\ <<work[i].exp.next_q_tw, work[i].exp.prev_q_tw>> =
               ExpectedQuarterly(DateOf(i))

\* a table with a January row on or before its third Friday (previous expiration
\* in December of the year before, monthly and quarterly) and a December row
\* after its third Friday (next expirations in January and March of the year after)
C2_Witness ==
    /\ \E i \in Rows :
           /\ DateOf(i)[2] = 1
           /\ FromOrdinal(work[i].exp.prev_tw)[1] = DateOf(i)[1] - 1
           /\ FromOrdinal(work[i].exp.prev_q_tw)[2] = 12
    /\ \E i \in Rows :
           /\ DateOf(i)[2] = 12
           /\ FromOrdinal(work[i].exp.next_tw) = <<DateOf(i)[1] + 1, 1, 19>>
           /\ FromOrdinal(work[i].exp.next_q_tw)[2] = 3

-----------------------------------------------------------------------------

\* the leftmost position (0-based) of a row dated on or after a date, as <<p>>,
\* or <<>> when no row is
LeftmostAtOrAfter(target) ==
    LET at == {j \in Rows : ToOrdinal(DateOf(j)) >= target}
    IN  IF at = {} THEN <<>> ELSE <<(CHOOSE j \in at : \A k \in at : j <= k) - 1>>

\* a position array entry as <<p>> or <<>>
Defined(position) == IF position >= 0 THEN <<position>> ELSE <<>>

NonNegative(x) == IF x < 0 THEN 0 ELSE x

ExpectedRemaining(next, p) ==
    IF next = <<>> THEN <<>> ELSE <<NonNegative(next[1] - p)>>

ExpectedElapsed(prev, p) ==
    IF prev = <<>> THEN <<>> ELSE <<NonNegative(p - prev[1])>>

LastDate == ToOrdinal(DateOf(Len(enriched)))

\* C3: the position of an expiration date is the leftmost position dated on or
\* after it, undefined when there is none; remaining = max(0, next - p) and
\* elapsed = max(0, p - previous) when the position is defined, missing
\* otherwise; an expiration after the last row gives a missing cell, not 0, and
\* the table still has every row of the series.
C3_PositionsAndMissingCells ==
    \A i \in Rows :
        LET e == work[i].exp
            r == enriched[i]
        IN  /\ Defined(e.next_position) = LeftmostAtOrAfter(e.next_tw)
            /\ Defined(e.prev_position) = LeftmostAtOrAfter(e.prev_tw)
            /\ Defined(e.next_q_position) = LeftmostAtOrAfter(e.next_q_tw)
            /\ Defined(e.prev_q_position) = LeftmostAtOrAfter(e.prev_q_tw)
            /\ r.remaining_before_tw =
                   ExpectedRemaining(LeftmostAtOrAfter(e.next_tw), i - 1)
            /\ r.elapsed_since_tw =
                   ExpectedElapsed(LeftmostAtOrAfter(e.prev_tw), i - 1)
            /\ r.remaining_before_q_tw =
                   ExpectedRemaining(LeftmostAtOrAfter(e.next_q_tw), i - 1)
            /\ r.elapsed_since_q_tw =
                   ExpectedElapsed(LeftmostAtOrAfter(e.prev_q_tw), i - 1)
            /\ e.next_tw > LastDate => r.remaining_before_tw = <<>>
            /\ e.next_q_tw > LastDate => r.remaining_before_q_tw = <<>>
            /\ Len(enriched) = Cardinality(prices)
            /\ Len(response.rows) = Len(enriched)

\* a row whose monthly expiration is resolved while its quarterly one falls after
\* the last row, in a table that also has a row with both unresolved
C3_Witness ==
    /\ \E i \in Rows :
           /\ enriched[i].remaining_before_tw # <<>>
           /\ enriched[i].remaining_before_tw[1] >= 2
           /\ enriched[i].remaining_before_q_tw = <<>>
           /\ enriched[i].elapsed_since_tw # <<>>
    /\ \E i \in Rows :
           /\ enriched[i].remaining_before_tw = <<>>
           /\ enriched[i].remaining_before_q_tw = <<>>

\* C4 as stated: a 0 in a trading-days-remaining or trading-days-elapsed column
\* means the row is dated on the expiration it is measured against.
C4_ZeroOnlyOnExpirationDay ==
    \A i \in Rows :
        LET e == work[i].exp
            r == enriched[i]
            d == ToOrdinal(DateOf(i))
        IN  /\ r.remaining_before_tw = <<0>> => d = e.next_tw
            /\ r.elapsed_since_tw = <<0>> => d = e.prev_tw
            /\ r.remaining_before_q_tw = <<0>> => d = e.next_q_tw
            /\ r.elapsed_since_q_tw = <<0>> => d = e.prev_q_tw

\* C5: when the next monthly expiration of a row is itself a row of the series,
\* the reported date is that third Friday and trading-days-remaining is the
\* number of rows dated after the row and on or before the expiration.
C5_RemainingCountsRowsUpToExpiration ==
    \A i \in Rows : \A j \in Rows :
        ToOrdinal(DateOf(j)) = ExpectedMonthly(DateOf(i))[1] =>
            /\ enriched[i].tw_date = DateOf(j)
            /\ enriched[i].remaining_before_tw =
                   <<Cardinality({k \in Rows :
                         /\ DateStrLess(DateOf(i), DateOf(k))
                         /\ ~DateStrLess(DateOf(j), DateOf(k))})>>

\* the row 2024-01-10 resolved to 2024-01-19, two rows ahead, and a row dated on
\* its own expiration day
C5_Witness ==
    /\ \E i \in Rows :
           /\ DateOf(i) = <<2024, 1, 10>>
           /\ enriched[i].tw_date = <<2024, 1, 19>>
           /\ enriched[i].remaining_before_tw = <<2>>
    /\ \E i \in Rows :
           /\ enriched[i].tw_date = DateOf(i)
           /\ enriched[i].remaining_before_tw = <<0>>

-----------------------------------------------------------------------------

PriceFields == {"open", "high", "close"}

RunSeries == {"oo", "oc", "hh", "ll"}

\* the day-over-day ratio a run column is computed from, at row i
RatioOf(s, i) ==
    CASE s = "oo" -> work[i].px.oo
      [] s = "oc" -> enriched[i].oc
      [] s = "hh" -> work[i].px.hh
      [] s = "ll" -> work[i].px.ll

Positive(v) == v.kind = "inf" \/ (v.kind = "fin" /\ v.n > 0)

Negative(v) == v.kind = "ninf" \/ (v.kind = "fin" /\ v.n < 0)

\* the streak rule: 0 where the condition is false, 1 where a run starts, the
\* previous streak plus 1 inside a run
StreakRule(cond, streak) ==
    \A i \in DOMAIN cond :
        streak[i] = IF ~cond[i] THEN 0
                    ELSE IF i = 1 \/ ~cond[i - 1] THEN 1
                    ELSE streak[i - 1] + 1

\* C6: each of the 8 run columns (bullish: ratio > 0, bearish: ratio < 0, over
\* oo, oc, hh, ll) follows the streak rule; a missing ratio, as on the first row
\* for oo, hh and ll, makes the condition false.
C6_RunColumnsFollowStreakRule ==
    /\ \A s \in RunSeries :
           /\ StreakRule([i \in Rows |-> Positive(RatioOf(s, i))],
                         [i \in Rows |-> enriched[i].bullish_run[s]])
           /\ StreakRule([i \in Rows |-> Negative(RatioOf(s, i))],
                         [i \in Rows |-> enriched[i].bearish_run[s]])
    /\ \A i \in Rows : \A s \in RunSeries :
           IsNaN(RatioOf(s, i)) =>
               enriched[i].bullish_run[s] = 0 /\ enriched[i].bearish_run[s] = 0
    /\ \A s \in {"oo", "hh", "ll"} : Rows # {} => IsNaN(RatioOf(s, 1))

\* three rows with a bearish oc run of length 2 broken by a bullish row, a bearish
\* oo run that ends, and a bullish hh row
C6_Witness ==
    /\ Len(enriched) = 3
    /\ enriched[1].bearish_run.oc = 1
    /\ enriched[2].bearish_run.oc = 2
    /\ enriched[3].bearish_run.oc = 0
    /\ enriched[3].bullish_run.oc = 1
    /\ enriched[2].bearish_run.oo = 1
    /\ enriched[3].bearish_run.oo = 0
    /\ enriched[3].bullish_run.hh = 1

\* the running maximum of a price field through row i, as compute_features holds it
RunningMax(f, i) ==
    CASE f = "open" -> work[i].px.ath_open
      [] f = "high" -> work[i].px.ath_high
      [] f = "close" -> work[i].px.ath_close

\* the value at row i is present and no present value through row i exceeds it
IsHigh(f, i) ==
    /\ ~IsNaN(enriched[i][f])
    /\ \A j \in 1..i : IsNaN(enriched[j][f]) \/ FLeq(enriched[j][f], enriched[i][f])

RunningMaxNonDecreasing(f) ==
    \A i \in Rows : \A j \in Rows :
        (i < j /\ ~IsNaN(RunningMax(f, i)) /\ ~IsNaN(RunningMax(f, j)))
            => FLeq(RunningMax(f, i), RunningMax(f, j))

FlagIffValueIsRunningMax(f) ==
    \A i \in Rows :
        enriched[i].ath[f] =
            IF ~IsNaN(enriched[i][f]) /\ enriched[i][f] = RunningMax(f, i)
            THEN 1 ELSE 0

AthCounterRule(f) ==
    StreakRule([i \in Rows |-> enriched[i].ath[f] = 1],
               [i \in Rows |-> enriched[i].consecutive_ath[f]])

\* C7 as stated: for open, high and close the running maximum is non-decreasing,
\* the ATH flag is 1 iff the value equals the running maximum through the row,
\* the first row is always an ATH, and the consecutive-ATH counter follows the
\* streak rule on the flag.
C7_AthWithFirstRowAlwaysAth ==
    \A f \in PriceFields :
        /\ RunningMaxNonDecreasing(f)
        /\ FlagIffValueIsRunningMax(f)
        /\ Rows # {} => enriched[1].ath[f] = 1
        /\ AthCounterRule(f)

\* C7 amended: as stated, except that the first row is an ATH when its value is
\* present: a row whose value is missing is never an ATH, the first row included.
C7_AthWithPresentValues ==
    \A f \in PriceFields :
        /\ RunningMaxNonDecreasing(f)
        /\ FlagIffValueIsRunningMax(f)
        /\ \A i \in Rows : enriched[i].ath[f] = (IF IsHigh(f, i) THEN 1 ELSE 0)
        /\ Rows # {} => (enriched[1].ath[f] = 1 <=> ~IsNaN(enriched[1][f]))
        /\ AthCounterRule(f)

\* opens 2, 1, 2 (a tie with an earlier maximum after a lower row) and closes
\* missing, then two equal highs (a counter of 2 after a first row that is no ATH)
C7_Witness ==
    /\ Len(enriched) = 3
    /\ enriched[1].ath.open = 1 /\ enriched[2].ath.open = 0
    /\ enriched[3].ath.open = 1 /\ enriched[3].consecutive_ath.open = 1
    /\ enriched[2].open # enriched[3].open
    /\ IsNaN(enriched[1].close) /\ enriched[1].ath.close = 0
    /\ enriched[3].consecutive_ath.close = 2

-----------------------------------------------------------------------------

\* the close h rows away from row i (h rows earlier when h > 0, later when
\* h < 0), or <<>> when the series has no such row
CloseAway(i, h) ==
    IF i - h \in Rows THEN <<enriched[i - h].close>> ELSE <<>>

\* (close[t] / close[t -+ h] - 1) * 100, missing without such a row
ExpectedReturn(i, h) ==
    IF CloseAway(i, h) = <<>> THEN NaN ELSE Pct(enriched[i].close, CloseAway(i, h)[1])

\* C8 as stated: 'cc -h' is (close[t] / close[t-h] - 1) * 100 when t >= h and
\* missing when t < h; 'cc +h' is (close[t] / close[t+h] - 1) * 100 when
\* t + h < n and missing otherwise; a missing close at t, t-h or t+h yields
\* missing; and close[t] = close[t-h] * (1 + 'cc -h'[t] / 100) wherever 'cc -h'
\* is defined.
C8_MultiHorizonReturns ==
    \A i \in Rows : \A h \in Horizons :
        LET back == enriched[i].cc_minus[h]
            fwd == enriched[i].cc_plus[h]
        IN  /\ back = ExpectedReturn(i, h)
            /\ fwd = ExpectedReturn(i, -h)
            /\ (IsNaN(enriched[i].close) \/ CloseAway(i, h) \in {<<>>, <<NaN>>})
                   => IsNaN(back)
            /\ (IsNaN(enriched[i].close) \/ CloseAway(i, -h) \in {<<>>, <<NaN>>})
                   => IsNaN(fwd)
            /\ IsFinite(back) =>
                   enriched[i].close =
                       FMul(CloseAway(i, h)[1],
                            FSub(FDiv(back, Num(100)), Num(-1)))

ZeroOrMissing(v) == IsNaN(v) \/ v = Num(0)

Infinite(v) == v.kind \in {"inf", "ninf"}

\* the percentage cells of a row of the feature table or of the serialized rows
PercentageCells(r) ==
    {r.cc, r.oc, r.co} \cup {r.cc_minus[h] : h \in Horizons}
                       \cup {r.cc_plus[h] : h \in Horizons}

\* C9 as stated: a percentage output (cc, oc, co, the multi-horizon returns)
\* whose divisor is zero or missing is missing, and no infinite value appears in
\* the feature table or in the rows api_data serializes.
C9_NoInfinityInOutput ==
    /\ \A i \in Rows :
           /\ ZeroOrMissing(enriched[i].open) => IsNaN(enriched[i].oc)
           /\ (i = 1 \/ ZeroOrMissing(enriched[Max(i - 1, 1)].close))
                  => IsNaN(enriched[i].cc) /\ IsNaN(enriched[i].co)
           /\ \A h \in Horizons :
                  /\ (CloseAway(i, h) = <<>> \/ ZeroOrMissing(CloseAway(i, h)[1]))
                         => IsNaN(enriched[i].cc_minus[h])
                  /\ (CloseAway(i, -h) = <<>> \/ ZeroOrMissing(CloseAway(i, -h)[1]))
                         => IsNaN(enriched[i].cc_plus[h])
           /\ \A v \in PercentageCells(enriched[i]) : ~Infinite(v)
    /\ \A i \in 1..Len(response.rows) :
           "cc" \in DOMAIN response.rows[i] =>
               \A v \in PercentageCells(response.rows[i]) : ~Infinite(v)

\* the rows of the cached series with a close, in date order
ClosedRows == dropna_close(fetch_all_from_db(prices, "AAPL"))

GroupCloses(year, month) ==
    SelectSeq(ClosedRows, LAMBDA r : r.date[1] = year /\ r.date[2] = month)

ExpectedCell(year, month) ==
    LET g == GroupCloses(year, month)
    IN  IF g = <<>> THEN NaN
        ELSE IF Len(g) = 1 THEN Num(0)
        ELSE Pct(g[Len(g)].close, g[1].close)

\* C10 as stated: the monthly table has exactly 12 rows labelled Jan..Dec in
\* calendar order and one column per calendar year of the rows with a close, in
\* ascending order; the cell (month, year) is (last close / first close - 1) *
\* 100 over the group's rows, 0.0 for a single observation, missing for no row.
C10_MonthlyTable ==
    monthly # NoTable =>
        /\ Len(monthly.rows) = 12
        /\ \A m \in 1..12 : monthly.rows[m].month = month_names[m]
        /\ {monthly.columns[k] : k \in 1..Len(monthly.columns)} =
               {ClosedRows[i].date[1] : i \in 1..Len(ClosedRows)}
        /\ \A k \in 1..Len(monthly.columns) : \A l \in 1..Len(monthly.columns) :
               k < l => monthly.columns[k] < monthly.columns[l]
        /\ \A m \in 1..12 : \A k \in 1..Len(monthly.columns) :
               monthly.rows[m].cells[k] = ExpectedCell(monthly.columns[k], m)

-----------------------------------------------------------------------------

\* the return of row i of the rows with a close: the percent change of close from
\* the previous row of the same weekday, missing when there is none
SameWeekdayReturn(i) ==
    LET same == {j \in 1..(i - 1) :
                    Weekday(ToOrdinal(ClosedRows[j].date)) =
                        Weekday(ToOrdinal(ClosedRows[i].date))}
    IN  IF same = {}
        THEN NaN
        ELSE Pct(ClosedRows[i].close,
                 ClosedRows[CHOOSE j \in same : \A k \in same : k <= j].close)

IsoYearOf(i) ==
    LET ord == ToOrdinal(ClosedRows[i].date)
    IN  YearOf(ord - Weekday(ord) + 3)

QuarterOf(i) == ClosedRows[i].date[1] * 10 + ((ClosedRows[i].date[2] + 2) \div 3)

\* the rows of weekday w (1 = monday) in the ISO week-year, resp. the quarter, p
WeekYearRows(w, p) ==
    {i \in 1..Len(ClosedRows) :
        Weekday(ToOrdinal(ClosedRows[i].date)) = w - 1 /\ IsoYearOf(i) = p}

QuarterRows(w, p) ==
    {i \in 1..Len(ClosedRows) :
        Weekday(ToOrdinal(ClosedRows[i].date)) = w - 1 /\ QuarterOf(i) = p}

\* the mean of the defined returns of a set of rows, missing when none is defined
MeanOfDefinedReturns(rows) ==
    LET defined == {i \in rows : ~IsNaN(SameWeekdayReturn(i))}
    IN  IF defined = {}
        THEN NaN
        ELSE FDiv(SumOver([i \in 1..Len(ClosedRows) |-> SameWeekdayReturn(i)],
                          defined),
                  Num(Cardinality(defined)))

\* C11 as stated: in both weekday pivots a row's return is the percent change of
\* close from the previous observation of the same weekday and each cell is the
\* mean of the defined returns of its (weekday, period) rows; and a Monday with
\* no prior Monday in its ISO-week-year group yields a missing (monday,
\* ISO-week-year) cell.
C11_WeekdayCellsAndFirstMonday ==
    /\ weekly # NoTable =>
           /\ \A w \in 1..5 : \A k \in 1..Len(weekly.columns) :
                  weekly.rows[w].cells[k] =
                      MeanOfDefinedReturns(WeekYearRows(w, weekly.columns[k]))
           /\ \A k \in 1..Len(weekly.columns) :
                  Cardinality(WeekYearRows(1, weekly.columns[k])) = 1 =>
                      IsNaN(weekly.rows[1].cells[k])
    /\ weekly_quarter # NoTable =>
           \A w \in 1..5 : \A k \in 1..Len(weekly_quarter.columns) :
               weekly_quarter.rows[w].cells[k] =
                   MeanOfDefinedReturns(QuarterRows(w, weekly_quarter.columns[k]))

\* the Mondays of a set of rows that have an earlier Monday in the series
ChainedMondays(rows) ==
    {i \in rows : \E j \in 1..(i - 1) : Weekday(ToOrdinal(ClosedRows[j].date)) = 0}

\* C11 amended: in both weekday pivots a row's return is the percent change of
\* close from the previous observation of the same weekday anywhere earlier in
\* the series, whatever its period, and each cell is the mean of the defined
\* returns of its (weekday, period) rows; the (monday, ISO-week-year) cell is
\* missing when none of its Mondays has an earlier Monday in the series, even if
\* a Friday row immediately precedes, and takes the return from the earlier
\* Monday otherwise.
C11_WeekdayCellsChainAcrossPeriods ==
    /\ weekly # NoTable =>
           /\ \A w \in 1..5 : \A k \in 1..Len(weekly.columns) :
                  weekly.rows[w].cells[k] =
                      MeanOfDefinedReturns(WeekYearRows(w, weekly.columns[k]))
           /\ \A k \in 1..Len(weekly.columns) :
                  ChainedMondays(WeekYearRows(1, weekly.columns[k])) = {} =>
                      IsNaN(weekly.rows[1].cells[k])
    /\ weekly_quarter # NoTable =>
           \A w \in 1..5 : \A k \in 1..Len(weekly_quarter.columns) :
               weekly_quarter.rows[w].cells[k] =
                   MeanOfDefinedReturns(QuarterRows(w, weekly_quarter.columns[k]))

\* closes 1 (Monday), 2 (Friday), 2 (Monday of ISO week-year 2025): the cell
\* (monday, 2025) is the change from the earlier Monday, 100, not the change from
\* the Friday, 0, and the cell (monday, 2024) is missing
C11_Witness ==
    /\ weekly # NoTable
    /\ Len(ClosedRows) = 3
    /\ ClosedRows[2].close = ClosedRows[3].close
    /\ weekly.columns = <<2024, 2025>>
    /\ IsNaN(weekly.rows[1].cells[1])
    /\ weekly.rows[1].cells[2] = Num(100)

-----------------------------------------------------------------------------

\* the cache holds bars and every close is missing
EveryCloseMissing == prices # {} /\ \A r \in prices : IsNaN(r.close)

\* a pivot handler has answered: a 200 that is not a feature table
PivotAnswered == response.status = 200 /\ enriched = <<>>

\* C12: on a zero-row series compute_features and the three pivot builders return
\* an empty result; the three pivot builders also return an empty result, and
\* their handlers answer with no row, when every close is missing.
C12_EmptyInputGivesEmptyResult ==
    /\ returned.fn = "builders" =>
           /\ returned.args = <<>>
           /\ returned.value.compute_features = <<>>
           /\ returned.value.compute_monthly_performance = NoTable
           /\ returned.value.compute_weekday_performance = NoTable
           /\ returned.value.compute_weekday_performance_by_quarter = NoTable
    /\ (EveryCloseMissing /\ PivotAnswered) =>
           /\ monthly = NoTable
           /\ weekly = NoTable
           /\ weekly_quarter = NoTable
           /\ response.rows = <<>>
    /\ (PivotAnswered /\ ~EveryCloseMissing) =>
           (monthly # NoTable \/ weekly # NoTable \/ weekly_quarter # NoTable)

\* the four builders have been called on a zero-row frame
C12_Witness ==
    /\ returned.fn = "builders"
    /\ returned.args = <<>>
    /\ returned.value.compute_features = <<>>
    /\ returned.value.compute_monthly_performance.rows = <<>>

-----------------------------------------------------------------------------

\* the series compute_features was given: the ticker's cached bars in date order
InputRows == fetch_all_from_db(prices, "AAPL")

\* C13: for a non-empty ascending series compute_features outputs one row per
\* input row in the same order, and on every row month is in 1..12, semester is
\* 1 for months 1-6 and 2 otherwise, trimester is ceil(month / 4), in {1, 2, 3},
\* and decade is year // 10 * 10.
C13_RowsKeptAndCalendarAttributes ==
    enriched # <<>> =>
        /\ Len(enriched) = Len(InputRows)
        /\ \A i \in Rows :
               /\ enriched[i].date = InputRows[i].date
               /\ enriched[i].open = InputRows[i].open
               /\ enriched[i].close = InputRows[i].close
               /\ enriched[i].year = InputRows[i].date[1]
               /\ enriched[i].month = InputRows[i].date[2]
               /\ enriched[i].month \in 1..12
               /\ enriched[i].semester = (IF enriched[i].month <= 6 THEN 1 ELSE 2)
               /\ enriched[i].trimester \in {1, 2, 3}
               /\ enriched[i].trimester = CeilTrimester(enriched[i].month)
               /\ enriched[i].decade = (enriched[i].year \div 10) * 10
        /\ \A i \in Rows : \A j \in Rows :
               i < j => DateStrLess(enriched[i].date, enriched[j].date)

\* a table of at least five rows with rows in December (trimester 3, semester 2),
\* June (trimester 2, semester 1) and July (trimester 2, semester 2)
C13_Witness ==
    /\ Len(enriched) >= 5
    /\ \E i \in Rows : enriched[i].month = 12 /\ enriched[i].trimester = 3
    /\ \E i \in Rows : enriched[i].month = 6 /\ enriched[i].semester = 1
    /\ \E i \in Rows : enriched[i].month = 7 /\ enriched[i].semester = 2
                       /\ enriched[i].trimester = 2

-----------------------------------------------------------------------------

\* the days of a month that are Fridays
FridaysOf(year, month) ==
    {d \in 1..DaysInMonthTable[month] + (IF month = 2 /\ IsLeap(year) THEN 1 ELSE 0) :
        Weekday(ToOrdinal(<<year, month, d>>)) = 4}

\* C14: third_friday(Y, M) is the first Friday of the month plus 14 days: a
\* Friday of month M of year Y, on a day between 15 and 21, with exactly two
\* earlier Fridays in the month.
C14_ThirdFridayOfTheMonth ==
    returned.fn = "third_friday" =>
        LET year == returned.args[1]
            month == returned.args[2]
            day == returned.value[3]
        IN  /\ returned.value[1] = year
            /\ returned.value[2] = month
            /\ day \in 15..21
            /\ day \in FridaysOf(year, month)
            /\ Cardinality({d \in FridaysOf(year, month) : d < day}) = 2
            /\ day = 14 + CHOOSE d \in FridaysOf(year, month) :
                              \A e \in FridaysOf(year, month) : d <= e

\* third_friday called for June 2024, which starts on a Saturday: the latest
\* possible third Friday, the 21st
C14_Witness ==
    /\ returned.fn = "third_friday"
    /\ returned.args = <<2024, 6>>
    /\ returned.value = <<2024, 6, 21>>

-----------------------------------------------------------------------------

\* C15: after any sequence of 'new' and 'update' requests, re-deliveries of a
\* cached date included, the cache holds at most one bar per (ticker, date) and
\* fetch_all_from_db returns the ticker's bars strictly increasing by date, which
\* is the order of the dates compute_features searches.
C15_OneBarPerDateInDateOrder ==
    /\ \A r \in prices : \A q \in prices :
           (r.ticker = q.ticker /\ r.date = q.date) => r = q
    /\ Len(InputRows) = Cardinality({r \in prices : r.ticker = "AAPL"})
    /\ \A i \in 1..Len(InputRows) : \A j \in 1..Len(InputRows) :
           i < j => ToOrdinal(InputRows[i].date) < ToOrdinal(InputRows[j].date)
    /\ \A i \in 1..Len(work) : \A j \in 1..Len(work) :
           i < j => work[i].exp.date_value < work[j].exp.date_value

\* a cache of three bars, delivered newest first or in any order, read back and
\* enriched
C15_Witness ==
    /\ Cardinality(prices) = 3
    /\ Len(InputRows) = 3
    /\ Len(enriched) = 3
    /\ response.status = 200

-----------------------------------------------------------------------------

\* the third Fridays of the given months of the years around a date
ThirdFridaysNear(ymd, months) ==
    {FridayOfThirdWeek(y, m) : y \in (ymd[1] - 1)..(ymd[1] + 1), m \in months}

\* next is the earliest of the third Fridays on or after d, previous the latest
\* of those strictly before d
EarliestAndLatest(d, next, prev, fridays) ==
    /\ next \in fridays /\ next >= d
    /\ \A t \in fridays : t >= d => next <= t
    /\ prev \in fridays /\ prev < d
    /\ \A t \in fridays : t < d => t <= prev

\* C16: for every row and both granularities the next expiration is the earliest
\* third Friday (of a month, resp. of a quarter-ending month) on or after the
\* row's date and the previous one the latest strictly before it; so a defined
\* next position is >= the row's position, the previous position is always
\* defined and <= the row's position, the max(0, .) clamps change nothing and
\* the elapsed columns are never missing.
C16_ExpirationsBracketTheRow ==
    \A i \in Rows :
        LET e == work[i].exp
            r == enriched[i]
            d == ToOrdinal(DateOf(i))
            p == i - 1
        IN  /\ EarliestAndLatest(d, e.next_tw, e.prev_tw,
                                 ThirdFridaysNear(DateOf(i), 1..12))
            /\ EarliestAndLatest(d, e.next_q_tw, e.prev_q_tw,
                                 ThirdFridaysNear(DateOf(i), {3, 6, 9, 12}))
            /\ e.next_position >= 0 => e.next_position >= p
            /\ e.next_q_position >= 0 => e.next_q_position >= p
            /\ e.prev_position >= 0 /\ e.prev_position <= p
            /\ e.prev_q_position >= 0 /\ e.prev_q_position <= p
            /\ e.next_position >= 0 => r.remaining_before_tw = <<e.next_position - p>>
            /\ e.next_q_position >= 0 =>
                   r.remaining_before_q_tw = <<e.next_q_position - p>>
            /\ r.elapsed_since_tw = <<p - e.prev_position>>
            /\ r.elapsed_since_q_tw = <<p - e.prev_q_position>>

\* a table with a row dated on its quarterly expiration, a row whose next
\* expirations both fall after the last row, and a row several rows after the
\* position of its previous quarterly expiration
C16_Witness ==
    /\ \E i \in Rows : work[i].exp.next_q_tw = ToOrdinal(DateOf(i))
    /\ \E i \in Rows :
           /\ enriched[i].remaining_before_tw = <<>>
           /\ enriched[i].remaining_before_q_tw = <<>>
           /\ enriched[i].elapsed_since_tw # <<>>
    /\ \E i \in Rows :
           /\ enriched[i].elapsed_since_q_tw # <<>>
           /\ enriched[i].elapsed_since_q_tw[1] >= 2
    /\ \E i \in Rows :
           /\ enriched[i].remaining_before_q_tw # <<>>
           /\ enriched[i].remaining_before_q_tw[1] >= 2

====
